---- MODULE Spec2Model ----
(***************************************************************************)
(* A model of src/src/cg_model.py: the CGModel dataclass (a square         *)
(* propagator matrix T_infty), its trajectory evolution, pair distance,    *)
(* lambda_CG estimation and spectral diagnostics.                          *)
(*                                                                         *)
(* Numbers.  The entries of matrices and vectors are small integers        *)
(* (exactly representable as floats, so the coercion dtype=float keeps     *)
(* their value and all sums and products below are exact).  The real       *)
(* numbers numpy computes with sqrt, log, svd, eigvals and polyfit are     *)
(* carried as closed terms: sqrt(s) is [sqrt |-> s], log(x) is             *)
(* [kind |-> "log", of |-> x], and so on.  Two such terms are equal as     *)
(* records exactly when they are built from equal arguments.               *)
(*                                                                         *)
(* Arrays.  An ndarray is [shape |-> <<...>>, data |-> <<...>>], the data  *)
(* in row-major order.  Array objects live in a heap, so that a copy and   *)
(* an alias of the caller's array are different things.                    *)
(***************************************************************************)
EXTENDS Integers, Sequences, FiniteSets

VARIABLES heap,       \* array objects: reference -> ndarray (or NoArray)
          model,      \* the CGModel object: [T_infty |-> ref], or NoModel
          supplied,   \* the value the caller's array had when it was passed
                      \* to the constructor (the last time)
          args,       \* the arguments the caller passes to the methods
          last,       \* the last call: [op |-> name, out |-> its outcome]
          writesLeft  \* in-place writes the caller may still do to its array

vars == <<heap, model, supplied, args, last, writesLeft>>

-----------------------------------------------------------------------------
(* Bounds of the model. *)

MaxVal == 1        \* entries of the input arrays are 0..MaxVal
MaxSteps == 3      \* n_steps and n are -2..MaxSteps, the fit bounds -2..MaxSteps+1
MaxWrites == 1     \* in-place writes of the caller to its array

Vals == 0..MaxVal
Dims == {1, 2}
StepRange == (0 - 2)..MaxSteps
FitRange == (0 - 2)..(MaxSteps + 1)

-----------------------------------------------------------------------------
(* ndarrays *)

RECURSIVE prod(_)
prod(s) == IF s = <<>> THEN 1 ELSE Head(s) * prod(Tail(s))

ndim(a) == Len(a.shape)

ArraysOf(shape) == {[shape |-> shape, data |-> d] : d \in [1..prod(shape) -> Vals]}

ones(d) == [shape |-> <<d>>, data |-> [i \in 1..d |-> 1]]

\* T[i, j], 1-based, of a 2-D array
at(T, i, j) == T.data[(i - 1) * T.shape[2] + j]

RECURSIVE sum(_, _)
sum(f, n) == IF n = 0 THEN 0 ELSE f[n] + sum(f, n - 1)

\* self.T_infty @ psi: a 2-D array times a 1-D data vector
matvec(T, psi) ==
    [i \in 1..T.shape[1] |-> sum([j \in 1..T.shape[2] |-> at(T, i, j) * psi[j]], T.shape[2])]

\* A @ B for two 2-D arrays
matmul(A, B) ==
    [shape |-> <<A.shape[1], B.shape[2]>>,
     data |-> [k \in 1..(A.shape[1] * B.shape[2]) |->
                 LET i == ((k - 1) \div B.shape[2]) + 1
                     j == ((k - 1) % B.shape[2]) + 1
                 IN sum([m \in 1..A.shape[2] |-> at(A, i, m) * at(B, m, j)], A.shape[2])]]

RECURSIVE concat(_)
concat(rows) == IF rows = <<>> THEN <<>> ELSE Head(rows) \o concat(Tail(rows))

\* np.vstack(traj): the list of 1-D vectors as one 2-D array
vstack(traj, d) == [shape |-> <<Len(traj), d>>, data |-> concat(traj)]

\* a[k], 0-based, of a 2-D array: its k-th row as a data vector
row(a, k) == [j \in 1..a.shape[2] |-> a.data[k * a.shape[2] + j]]

\* the number of rows of a 2-D array
nrows(a) == a.shape[1]


-----------------------------------------------------------------------------
(* Real-valued numpy functions, as closed terms *)

\* np.linalg.norm of a data vector: sqrt of the sum of squares
norm(v) == [sqrt |-> sum([j \in 1..Len(v) |-> v[j] * v[j]], Len(v))]

\* np.log of a norm: -inf at 0 (a RuntimeWarning, no exception)
np_log(x) == IF x.sqrt = 0 THEN [kind |-> "-inf", of |-> x]
                           ELSE [kind |-> "log", of |-> x]

\* the slope np.polyfit(x, y, deg=1) returns: the least-squares slope of the
\* points, and nan as soon as some y is not finite (lstsq propagates it)
polyfit_slope(x, y) ==
    IF \E i \in 1..Len(y) : y[i].kind # "log"
    THEN [kind |-> "nan", x |-> x, y |-> y]
    ELSE [kind |-> "slope", x |-> x, y |-> y]

\* max(svd(M, compute_uv=False)): the largest singular value of M
sigma_max(M) == [fn |-> "sigma_max", of |-> M]

\* max(abs(eigvals(M))): the largest eigenvalue modulus of M
rho(M) == [fn |-> "rho", of |-> M]

eye(d) == [shape |-> <<d, d>>,
           data |-> [k \in 1..(d * d) |-> IF (k - 1) \div d = (k - 1) % d THEN 1 ELSE 0]]

\* np.linalg.matrix_power(T, n) for n >= 0
RECURSIVE matrix_power(_, _)
matrix_power(T, n) ==
    IF n = 0 THEN eye(T.shape[1])
    ELSE IF n = 1 THEN T
    ELSE matmul(matrix_power(T, n - 1), T)

-----------------------------------------------------------------------------
(* The heap of array objects *)

CallerRef == "caller"      \* the array object the caller built and keeps
CopyRef == "copy"          \* the array object np.array() allocates
Refs == {CallerRef, CopyRef}
NoArray == [shape |-> <<>>, data |-> <<>>]
NoModel == [T_infty |-> "none"]
NoError == ""

ShapeMsgT == "T_infty must be a square 2D array"
ShapeMsgPsi == "psi0 must be a 1D array compatible with T_infty"
WindowMsg == "Fit window too small."
RangeMsg == "n must be >= 1"

\* np.array(x, dtype=float) with x an alias of the object at r: no new object
np_array_alias(h, r) == [heap |-> h, ref |-> r]

\* np.array(x, dtype=float): a new array object holding a copy of the one at r
np_array(h, r) == [heap |-> [h EXCEPT ![CopyRef] = h[r]], ref |-> CopyRef]

\* a shape test that forgets to compare the two sides
is_square_2d_rank_only(a) == ndim(a) = 2

\* the test of __post_init__, negated: a 2-D array with as many rows as columns
is_square_2d(a) == IF ndim(a) # 2 THEN FALSE ELSE a.shape[1] = a.shape[2]

\* CGModel(T): the dataclass stores its argument, __post_init__ replaces it by
\* a float copy and validates the copy
post_init(h, r) ==
    LET c == np_array(h, r)
    IN IF ~is_square_2d(c.heap[c.ref])
       THEN [err |-> ShapeMsgT, heap |-> h, self |-> NoModel]
       ELSE [err |-> NoError, heap |-> c.heap, self |-> [T_infty |-> c.ref]]

-----------------------------------------------------------------------------
(* CGModel.evolve *)

\* an iteration count that takes a negative n_steps for its magnitude
range_len_abs(n_steps) == IF n_steps > 0 THEN n_steps ELSE 0 - n_steps

\* the number of iterations of "for _ in range(n_steps)"
range_len(n_steps) == IF n_steps > 0 THEN n_steps ELSE 0

\* a loop that appends the vector before propagating it
RECURSIVE evolve_loop_stale(_, _, _, _)
evolve_loop_stale(T, psi, traj, k) ==
    IF k = 0 THEN traj
    ELSE evolve_loop_stale(T, matvec(T, psi), Append(traj, psi), k - 1)

\* the loop of evolve with k iterations left: psi = T @ psi; traj.append(psi)
RECURSIVE evolve_loop(_, _, _, _)
evolve_loop(T, psi, traj, k) ==
    IF k = 0 THEN traj
    ELSE LET next == matvec(T, psi)
         IN evolve_loop(T, next, Append(traj, next), k - 1)

\* the check of evolve on psi = np.array(psi0, dtype=float)
psi_ok(T, psi) == IF ndim(psi) # 1 THEN FALSE ELSE psi.shape[1] = T.shape[1]

\* evolve(psi0, n_steps): the stacked trajectory, or the ValueError; steps
\* counts the propagation steps (T @ psi) performed
evolve(T, psi0, n_steps) ==
    IF ~psi_ok(T, psi0)
    THEN [err |-> ShapeMsgPsi, steps |-> 0]
    ELSE LET traj == evolve_loop(T, psi0.data, <<psi0.data>>, range_len(n_steps))
         IN [err |-> NoError, traj |-> vstack(traj, psi0.shape[1]),
             steps |-> Len(traj) - 1]

-----------------------------------------------------------------------------
(* CGModel.evolve_pair *)

\* a distance that forgets the second trajectory
pair_distance_first_only(a, b) ==
    [k \in 1..nrows(a) |-> norm(row(a, k - 1))]

\* np.linalg.norm(psi_traj - psi_traj_prime, axis=1)
pair_distance(a, b) ==
    [k \in 1..nrows(a) |->
        norm([j \in 1..a.shape[2] |-> row(a, k - 1)[j] - row(b, k - 1)[j]])]

\* evolve_pair(psi0, psi0_prime, n_steps)
evolve_pair(T, psi0, psi0_prime, n_steps) ==
    LET a == evolve(T, psi0, n_steps)
    IN IF a.err # NoError THEN [err |-> a.err, steps |-> a.steps]
       ELSE LET b == evolve(T, psi0_prime, n_steps)
            IN IF b.err # NoError
               THEN [err |-> b.err, steps |-> a.steps + b.steps]
               ELSE [err |-> NoError, psi_traj |-> a.traj,
                     psi_traj_prime |-> b.traj,
                     D_n |-> pair_distance(a.traj, b.traj),
                     steps |-> a.steps + b.steps]

-----------------------------------------------------------------------------
(* CGModel.estimate_lambda_CG *)

Min(a, b) == IF a < b THEN a ELSE b
Max(a, b) == IF a > b THEN a ELSE b

\* np.arange(n): 0, 1, ..., n-1
arange(n) == [i \in 1..n |-> i - 1]

\* a Python slice bound on a sequence of length len: negative bounds count
\* from the end, and the result is clipped to 0..len
slice_bound(b, len) == IF b < 0 THEN Max(b + len, 0) ELSE Min(b, len)

\* a slice that keeps the element at its upper bound
slice_inclusive(s, start, stop) ==
    LET lo == slice_bound(start, Len(s))
        hi == Min(slice_bound(stop, Len(s)) + 1, Len(s))
    IN IF hi <= lo THEN <<>> ELSE [i \in 1..(hi - lo) |-> s[lo + i]]

\* s[start:stop]: the elements at the 0-based indices start..stop-1
slice(s, start, stop) ==
    LET lo == slice_bound(start, Len(s))
        hi == slice_bound(stop, Len(s))
    IN IF hi <= lo THEN <<>> ELSE [i \in 1..(hi - lo) |-> s[lo + i]]

\* fit_start = max(fit_start, 0)
clamp_start(fit_start) == Max(fit_start, 0)

\* fit_end = min(fit_end, len(D_n) - 1)
clamp_end(fit_end, len) == Min(fit_end, len - 1)

\* a window test that lets a one-point window through
window_too_small_strict(fit_start, fit_end) == fit_end <= fit_start

\* the test before raise ValueError("Fit window too small.")
window_too_small(fit_start, fit_end) == fit_end <= fit_start + 1

\* estimate_lambda_CG(psi0, psi0_prime, n_steps, fit_start, fit_end); the
\* fields fit_start and fit_end are the values of the two locals when the
\* method ends
estimate_lambda_CG(T, psi0, psi0_prime, n_steps, fit_start, fit_end) ==
    LET p == evolve_pair(T, psi0, psi0_prime, n_steps)
    IN IF p.err # NoError THEN [err |-> p.err, steps |-> p.steps]
       ELSE LET D_n == p.D_n
                n_all == arange(Len(D_n))
                fs == clamp_start(fit_start)
                fe == clamp_end(fit_end, Len(D_n))
            IN IF window_too_small(fs, fe)
               THEN [err |-> WindowMsg, steps |-> p.steps,
                     fit_start |-> fs, fit_end |-> fe]
               ELSE LET n_fit == slice(n_all, fs, fe)
                        D_fit == slice(D_n, fs, fe)
                        logD_fit == [i \in 1..Len(D_fit) |-> np_log(D_fit[i])]
                    IN [err |-> NoError, steps |-> p.steps,
                        fit_start |-> fs, fit_end |-> fe,
                        lambda_hat |-> polyfit_slope(n_fit, logD_fit),
                        n_fit |-> n_fit, logD_fit |-> logD_fit]

-----------------------------------------------------------------------------
(* Spectral diagnostics *)

spectral_radius(T) == [err |-> NoError, value |-> rho(T)]

operator_norm(T) == [err |-> NoError, value |-> sigma_max(T)]

\* a guard that lets n = 0 through
power_out_of_range_negative(n) == n < 0

\* the guard of power_norm: if n < 1: raise ValueError
power_out_of_range(n) == n < 1

\* power_norm(n); powered tells whether matrix_power was called
power_norm(T, n) ==
    IF power_out_of_range(n)
    THEN [err |-> RangeMsg, powered |-> FALSE]
    ELSE [err |-> NoError, powered |-> TRUE,
          value |-> sigma_max(matrix_power(T, n))]

-----------------------------------------------------------------------------
(* Inputs *)

\* arrays a caller may pass to the constructor: of rank 0, 1, 2 and 3
AnyArray ==
    UNION {ArraysOf(sh) : sh \in {<<>>, <<1>>, <<2>>, <<1, 1, 1>>, <<2, 2, 1>>}
                               \cup {<<r, c>> : r \in Dims, c \in Dims}}

\* the square matrices
SquareArrays == UNION {ArraysOf(<<d, d>>) : d \in Dims}

\* diag * I + eta * A with A the directed cycle i -> (i + 1) % d, the form of
\* the propagators the demos build
circulation(d, diag, eta) ==
    [shape |-> <<d, d>>,
     data |-> [k \in 1..(d * d) |->
                 LET j == (k - 1) \div d
                     i == (k - 1) % d
                 IN (IF i = j THEN diag ELSE 0) + (IF j = (i + 1) % d THEN eta ELSE 0)]]

Propagators == {circulation(d, a, b) : d \in Dims, a \in Vals, b \in Vals}

\* initial vectors a caller may pass: 1-D of each length, and a 2-D one
VecArgs == UNION {ArraysOf(sh) : sh \in {<<d>> : d \in Dims}} \cup ArraysOf(<<1, 1>>)

NoCall == [op |-> "none", out |-> [err |-> NoError]]

\* a caller that builds any array, later writes to it, and calls the methods
\* with one pair of vectors
InitConstruct ==
    /\ \E a \in AnyArray : heap = [r \in Refs |-> IF r = CallerRef THEN a ELSE NoArray]
    /\ \E n \in StepRange :
          args = [psi0 |-> ones(2), psi0_prime |-> [shape |-> <<2>>, data |-> <<1, 0>>],
                  n_steps |-> n, fit_start |-> 0, fit_end |-> MaxSteps, n |-> n]
    /\ writesLeft = MaxWrites

\* a caller that builds any square matrix and passes one initial vector twice
InitEvolveSame ==
    /\ \E a \in SquareArrays : heap = [r \in Refs |-> IF r = CallerRef THEN a ELSE NoArray]
    /\ \E v \in VecArgs, n \in StepRange :
          args = [psi0 |-> v, psi0_prime |-> v,
                  n_steps |-> n, fit_start |-> 0, fit_end |-> MaxSteps, n |-> n]
    /\ writesLeft = 0

\* a caller that builds a propagator and passes any two initial vectors
InitEvolve ==
    /\ \E a \in Propagators : heap = [r \in Refs |-> IF r = CallerRef THEN a ELSE NoArray]
    /\ \E v \in VecArgs, w \in VecArgs, n \in StepRange :
          args = [psi0 |-> v, psi0_prime |-> w,
                  n_steps |-> n, fit_start |-> 0, fit_end |-> MaxSteps, n |-> n]
    /\ writesLeft = 0

\* a caller that builds a propagator, perturbs the all-ones vector and asks
\* for any fit window
InitFit ==
    /\ \E a \in Propagators :
          /\ heap = [r \in Refs |-> IF r = CallerRef THEN a ELSE NoArray]
          /\ \E w \in ArraysOf(<<a.shape[1]>>), n \in StepRange,
                fs \in FitRange, fe \in FitRange :
                args = [psi0 |-> ones(a.shape[1]), psi0_prime |-> w,
                        n_steps |-> n, fit_start |-> fs, fit_end |-> fe, n |-> n]
    /\ writesLeft = 0

Init ==
    /\ model = NoModel
    /\ supplied = NoArray
    /\ last = NoCall
    /\ \/ InitConstruct
       \/ InitEvolveSame
       \/ InitEvolve
       \/ InitFit

-----------------------------------------------------------------------------
(* Operations *)

\* the stored matrix self.T_infty
T_infty == heap[model.T_infty]

\* model = CGModel(the caller's array)
Construct ==
    /\ model = NoModel
    /\ LET r == post_init(heap, CallerRef)
       IN /\ heap' = r.heap
          /\ model' = r.self
          /\ supplied' = heap[CallerRef]
          /\ last' = [op |-> "construct", out |-> [err |-> r.err]]
    /\ UNCHANGED <<args, writesLeft>>

\* the caller writes one entry of the array it passed, or will pass
CallerWrite ==
    /\ writesLeft > 0
    /\ \E i \in DOMAIN heap[CallerRef].data, v \in Vals :
          /\ v # heap[CallerRef].data[i]
          /\ heap' = [heap EXCEPT ![CallerRef].data[i] = v]
    /\ writesLeft' = writesLeft - 1
    /\ UNCHANGED <<model, supplied, args, last>>

\* what the method op returns or raises on the matrix T with the arguments
Call(op, T) ==
    CASE op = "evolve" -> evolve(T, args.psi0, args.n_steps)
      [] op = "evolve_pair" -> evolve_pair(T, args.psi0, args.psi0_prime, args.n_steps)
      [] op = "estimate_lambda_CG" ->
            estimate_lambda_CG(T, args.psi0, args.psi0_prime, args.n_steps,
                               args.fit_start, args.fit_end)
      [] op = "spectral_radius" -> spectral_radius(T)
      [] op = "operator_norm" -> operator_norm(T)
      [] op = "power_norm" -> power_norm(T, args.n)

Evolve ==
    /\ model # NoModel
    /\ last' = [op |-> "evolve", out |-> Call("evolve", T_infty)]
    /\ UNCHANGED <<heap, model, supplied, args, writesLeft>>

EvolvePair ==
    /\ model # NoModel
    /\ last' = [op |-> "evolve_pair", out |-> Call("evolve_pair", T_infty)]
    /\ UNCHANGED <<heap, model, supplied, args, writesLeft>>

EstimateExponent ==
    /\ model # NoModel
    /\ last' = [op |-> "estimate_lambda_CG", out |-> Call("estimate_lambda_CG", T_infty)]
    /\ UNCHANGED <<heap, model, supplied, args, writesLeft>>

SpectralRadius ==
    /\ model # NoModel
    /\ last' = [op |-> "spectral_radius", out |-> Call("spectral_radius", T_infty)]
    /\ UNCHANGED <<heap, model, supplied, args, writesLeft>>

OperatorNorm ==
    /\ model # NoModel
    /\ last' = [op |-> "operator_norm", out |-> Call("operator_norm", T_infty)]
    /\ UNCHANGED <<heap, model, supplied, args, writesLeft>>

PowerNorm ==
    /\ model # NoModel
    /\ last' = [op |-> "power_norm", out |-> Call("power_norm", T_infty)]
    /\ UNCHANGED <<heap, model, supplied, args, writesLeft>>

Next ==
    \/ Construct
    \/ CallerWrite
    \/ Evolve
    \/ EvolvePair
    \/ EstimateExponent
    \/ SpectralRadius
    \/ OperatorNorm
    \/ PowerNorm

Spec == Init /\ [][Next]_vars

-----------------------------------------------------------------------------
(* Properties *)

\* v is a vector of length d: a 1-D array with d entries
IsVectorOfLength(v, d) == Len(v.shape) = 1 /\ v.shape = <<d>>

\* the dimension d of the constructed model
Dim == T_infty.shape[1]

Psi0Valid == IsVectorOfLength(args.psi0, Dim)
BothValid == Psi0Valid /\ IsVectorOfLength(args.psi0_prime, Dim)

\* the claims' clamped window
ClampedStart == IF args.fit_start > 0 THEN args.fit_start ELSE 0
ClampedEnd == IF args.fit_end < args.n_steps THEN args.fit_end ELSE args.n_steps

\* the fields of a successful fit
FitFields == {"lambda_hat", "n_fit", "logD_fit"}

\* the Euclidean distance of the two trajectories at step k, computed from
\* the two single-trajectory evolutions
DistanceAt(k) ==
    LET a == evolve(T_infty, args.psi0, args.n_steps).traj
        b == evolve(T_infty, args.psi0_prime, args.n_steps).traj
    IN norm([j \in 1..Dim |-> row(a, k)[j] - row(b, k)[j]])

\* the product of n factors M, n >= 1
RECURSIVE NFold(_, _)
NFold(M, n) == IF n = 1 THEN M ELSE matmul(M, NFold(M, n - 1))

(* C1: for a vector psi0 of length d and n_steps >= 0, Evolve returns exactly
   n_steps + 1 vectors, the first is psi0, and each next one is T applied to
   the one before it; the trajectory is a prefix of the one for n_steps + 1. *)
C1_EvolveTrajectory ==
    (last.op = "evolve" /\ Psi0Valid /\ args.n_steps >= 0) =>
        /\ last.out.err = NoError
        /\ last.out.traj.shape = <<args.n_steps + 1, Dim>>
        /\ Len(last.out.traj.data) = (args.n_steps + 1) * Dim
        /\ row(last.out.traj, 0) = args.psi0.data
        /\ \A k \in 0..(args.n_steps - 1) :
              row(last.out.traj, k + 1) = matvec(T_infty, row(last.out.traj, k))
        /\ LET longer == evolve(T_infty, args.psi0, args.n_steps + 1).traj
           IN \A k \in 0..args.n_steps : row(longer, k) = row(last.out.traj, k)

\* an evolution of at least two steps whose vectors change
C1_Witness ==
    /\ last.op = "evolve"
    /\ last.out.err = NoError
    /\ args.n_steps >= 2
    /\ row(last.out.traj, 1) # row(last.out.traj, 0)
    /\ row(last.out.traj, 2) # row(last.out.traj, 1)

(* C2: with valid vectors, EstimateExponent fails with the window error if
   and only if min(fit_end, n_steps) <= max(fit_start, 0) + 1, for every
   integer n_steps, fit_start and fit_end, and then returns no slope, index
   window or log-distances; for n_steps >= 0 the two locals hold exactly these
   clamped values. *)
C2_WindowError ==
    (last.op = "estimate_lambda_CG" /\ BothValid) =>
        /\ (last.out.err = WindowMsg) <=> (ClampedEnd <= ClampedStart + 1)
        /\ last.out.err = WindowMsg => DOMAIN last.out \cap FitFields = {}
        /\ args.n_steps >= 0 =>
              /\ last.out.fit_start = ClampedStart
              /\ last.out.fit_end = ClampedEnd

\* a window that is too small only once both bounds are clamped
C2_Witness ==
    /\ last.op = "estimate_lambda_CG"
    /\ last.out.err = WindowMsg
    /\ args.fit_start < 0
    /\ args.fit_end > args.n_steps
    /\ args.fit_end > args.fit_start + 1
    /\ args.n_steps >= 0

(* C3: when EstimateExponent succeeds, the fit indices are the consecutive
   integers from the clamped fit_start to the clamped fit_end minus 1, the
   log-distances are the logarithms of the distances at these steps, the
   window holds at least 2 indices, all in 0..n_steps-1. *)
C3_FitWindow ==
    (last.op = "estimate_lambda_CG" /\ last.out.err = NoError) =>
        /\ last.out.n_fit = [i \in 1..(ClampedEnd - ClampedStart) |-> ClampedStart + i - 1]
        /\ Len(last.out.logD_fit) = Len(last.out.n_fit)
        /\ \A i \in 1..Len(last.out.n_fit) :
              last.out.logD_fit[i] = np_log(DistanceAt(last.out.n_fit[i]))
        /\ Len(last.out.n_fit) >= 2
        /\ \A i \in 1..Len(last.out.n_fit) : last.out.n_fit[i] \in 0..(args.n_steps - 1)

\* a successful fit whose window was cut at n_steps and ends at n_steps - 1
C3_Witness ==
    /\ last.op = "estimate_lambda_CG"
    /\ last.out.err = NoError
    /\ args.fit_end > args.n_steps
    /\ args.fit_start > 0
    /\ last.out.n_fit[Len(last.out.n_fit)] = args.n_steps - 1

(* C4: EstimateExponent raises a fit-data error, and returns no slope,
   whenever a distance inside the fitting window is not positive. *)
C4_FitDataError ==
    (/\ last.op = "estimate_lambda_CG"
     /\ BothValid
     /\ ClampedEnd > ClampedStart + 1
     /\ \E k \in ClampedStart..(ClampedEnd - 1) : DistanceAt(k).sqrt <= 0) =>
        /\ last.out.err \notin {NoError, ShapeMsgPsi, WindowMsg}
        /\ DOMAIN last.out \cap FitFields = {}

(* C5: Construct fails with the shape error exactly for the arrays that are
   not rank-2 or not square, and then there is no model; for a rank-2 square
   array it succeeds and the model's dimension is the array's side. *)
C5_ConstructShape ==
    last.op = "construct" =>
        LET square == Len(supplied.shape) = 2 /\ supplied.shape[1] = supplied.shape[2]
        IN /\ last.out.err \in {NoError, ShapeMsgT}
           /\ (last.out.err = ShapeMsgT) <=> ~square
           /\ last.out.err = ShapeMsgT => model = NoModel
           /\ last.out.err = NoError =>
                 /\ model # NoModel
                 /\ T_infty.shape = <<supplied.shape[1], supplied.shape[1]>>

\* a rank-2 array that is not square is refused
C5_Witness ==
    /\ last.op = "construct"
    /\ last.out.err = ShapeMsgT
    /\ supplied.shape = <<1, 2>>
    /\ model = NoModel

(* C6: Evolve, EvolvePair and EstimateExponent fail with the shape error
   whenever a supplied vector is not a vector of length d, before any
   propagation step is performed. *)
C6_NoPartialComputation ==
    (\/ last.op = "evolve" /\ ~Psi0Valid
     \/ last.op \in {"evolve_pair", "estimate_lambda_CG"} /\ ~BothValid) =>
        /\ last.out.err = ShapeMsgPsi
        /\ last.out.steps = 0

(* C7: the stored matrix always equals the value supplied at construction,
   whatever calls and caller writes follow, and each call's result is the
   one its arguments and that value determine. *)
C7_StoredMatrixImmutable ==
    model # NoModel =>
        /\ T_infty = supplied
        /\ last.op \notin {"none", "construct"} => last.out = Call(last.op, supplied)

\* a call made after the caller overwrote the array it had passed
C7_Witness ==
    /\ model # NoModel
    /\ heap[CallerRef] # supplied
    /\ last.op = "evolve_pair"
    /\ last.out.err = NoError

(* C8: the distance sequence of EvolvePair has one entry per trajectory
   vector (n_steps + 1 for n_steps >= 0), each the Euclidean norm of the
   difference of the two vectors at that index and non-negative; for equal
   initial vectors the trajectories are identical and every entry is zero. *)
C8_PairDistance ==
    (last.op = "evolve_pair" /\ last.out.err = NoError) =>
        /\ Len(last.out.D_n) = nrows(last.out.psi_traj)
        /\ args.n_steps >= 0 => Len(last.out.D_n) = args.n_steps + 1
        /\ \A k \in 1..Len(last.out.D_n) :
              /\ last.out.D_n[k] = DistanceAt(k - 1)
              /\ last.out.D_n[k].sqrt >= 0
        /\ args.psi0 = args.psi0_prime =>
              /\ last.out.psi_traj = last.out.psi_traj_prime
              /\ \A k \in 1..Len(last.out.D_n) : last.out.D_n[k].sqrt = 0

\* a pair of equal, non-zero initial vectors evolved for several steps
C8_Witness ==
    /\ last.op = "evolve_pair"
    /\ last.out.err = NoError
    /\ args.psi0 = args.psi0_prime
    /\ args.n_steps >= 2
    /\ \E j \in 1..Dim : row(last.out.psi_traj, 2)[j] # 0

(* C9: PowerNorm(n) fails with the range error exactly for n < 1, without
   computing a matrix power; for n >= 1 it is the norm of the n-fold product
   of T, and PowerNorm(1) equals OperatorNorm(). *)
C9_PowerNorm ==
    last.op = "power_norm" =>
        /\ (last.out.err = RangeMsg) <=> (args.n < 1)
        /\ last.out.err \in {NoError, RangeMsg}
        /\ last.out.err = RangeMsg =>
              /\ ~last.out.powered
              /\ "value" \notin DOMAIN last.out
        /\ args.n >= 1 => last.out.value = sigma_max(NFold(T_infty, args.n))
        /\ args.n = 1 => last.out.value = operator_norm(T_infty).value

\* the power 0 is refused
C9_Witness ==
    /\ last.op = "power_norm"
    /\ args.n = 0
    /\ last.out.err = RangeMsg

(* C10: Evolve with a negative n_steps performs no step and returns only
   the initial vector; EstimateExponent with valid vectors and n_steps <= 1
   always fails with the window error, so a fit needs n_steps >= 2. *)
C10_NegativeSteps ==
    /\ (last.op = "evolve" /\ Psi0Valid /\ args.n_steps < 0) =>
          /\ last.out.err = NoError
          /\ last.out.steps = 0
          /\ last.out.traj.shape = <<1, Dim>>
          /\ row(last.out.traj, 0) = args.psi0.data
    /\ (last.op = "estimate_lambda_CG" /\ BothValid /\ args.n_steps <= 1) =>
          last.out.err = WindowMsg
    /\ (last.op = "estimate_lambda_CG" /\ last.out.err = NoError) => args.n_steps >= 2

\* a fit that succeeds with n_steps = 2
C10_Witness ==
    /\ last.op = "estimate_lambda_CG"
    /\ last.out.err = NoError
    /\ args.n_steps = 2
    /\ last.out.lambda_hat.kind = "slope"

=============================================================================
